---------------------------- MODULE Spec2Model ----------------------------
(***************************************************************************)
(* Vigenere cryptanalysis back end: the cipher primitives of               *)
(* utils/vigenereLogic.js, the worker's strategies of                      *)
(* workers/vigenereWorker.js and the worker pool of utils/workerPool.js.   *)
(*                                                                         *)
(* Strings are sequences of ASCII codes (65..90 = A..Z, 97..122 = a..z).   *)
(* JavaScript numbers that are ratios of small integers are kept as exact  *)
(* fractions [num, den]; the letter-frequency statistics (frequencies,     *)
(* chi-squared, index of coincidence) are kept in fixed point, in units of *)
(* 1/10000, truncated.                                                     *)
(***************************************************************************)
EXTENDS Integers, Sequences, FiniteSets, TLC

VARIABLES
    (* a call of decryptWithKey, alone or after an encryption *)
    dText, dKey, dEnc, dOut, dPc,
    (* a call of generateKeys *)
    gOptions, gKeys, gPc,
    (* a call of refineKey: its arguments, its locals and its position *)
    rIn, bestKey, bestDecrypted, bestWordStats, bestScore, iterations, improved,
    lastImprovedIteration, foundBetter, stagnating, pos, rPc,
    (* the worker thread: the task it received, its position, the locals of
       bruteForceCrack and cryptanalysisCrack, the messages it posted to its
       parent, and the steps of the analysis it has run *)
    task, wPc, likelyKeyLengths, lenIdx, bestResult, topResults, fullDecryption,
    posted, stepsRun,
    (* the worker pool: its set of busy workers, its queue, each worker's
       stored resolve callback (the task it settles, 0 for null), the messages
       in flight from the pool to each worker thread and back, whether the
       thread still runs, its 'error' event in flight, the promise of each
       task, the number of tasks submitted, whether a worker has failed, and
       the tasks that were queued at, or submitted after, such a failure; the
       tasks in the order executeOnWorker sent them, and the tasks runTask
       put in the queue *)
    busyWorkers, taskQueue, resolveOf, inbox, outbox, alive, errorEvent,
    promise, submitted, failed, afterFailure, sent, everQueued,
    (* a call of countRecognizedWords or of calculateIC on a text *)
    sText, sStats, sIC, sPc,
    (* the controller: its two counters, its answer to the crack request
       of each task, and the number of crack requests it answered without
       giving a task to the pool *)
    activeTasks, completedTasks, response, refused

decVars == <<dText, dKey, dEnc, dOut, dPc>>
genVars == <<gOptions, gKeys, gPc>>
refLocals == <<bestKey, bestDecrypted, bestWordStats, bestScore, iterations,
               improved, lastImprovedIteration, foundBetter, stagnating, pos>>
refVars == <<rIn, refLocals, rPc>>

crackLocals == <<likelyKeyLengths, lenIdx, bestResult, topResults, fullDecryption>>
crackVars == <<task, wPc, crackLocals, posted, stepsRun>>

poolVars == <<busyWorkers, taskQueue, resolveOf, inbox, outbox, alive,
              errorEvent, promise, submitted, failed, afterFailure, sent,
              everQueued>>

statVars == <<sText, sStats, sIC, sPc>>

ctlVars == <<activeTasks, completedTasks, response, refused>>

vars == <<decVars, genVars, refVars, crackVars, poolVars, statVars, ctlVars>>

\* what an action of one part leaves alone
notDec == <<genVars, refVars, crackVars, poolVars, statVars, ctlVars>>
notGen == <<decVars, refVars, crackVars, poolVars, statVars, ctlVars>>
notRef == <<decVars, genVars, crackVars, poolVars, statVars, ctlVars>>
notCrack == <<decVars, genVars, poolVars, statVars, ctlVars>>
notPoolCtl == <<decVars, genVars, refVars, crackVars, statVars>>
notPool == <<notPoolCtl, ctlVars>>
notStat == <<decVars, genVars, refVars, crackVars, poolVars, ctlVars>>

\* the parts a specification does not exercise stay as they are here
DecIdle == dText = <<>> /\ dKey = <<>> /\ dEnc = <<>> /\ dOut = <<>> /\ dPc = "idle"

GenIdle == gOptions = <<>> /\ gKeys = <<>> /\ gPc = "idle"

NoWordStats ==
    [count |-> 0, total |-> 0, percentage |-> [num |-> 0, den |-> 1],
     weightedScore |-> [num |-> 0, den |-> 1]]

RefIdle ==
    /\ rIn = [initialKey |-> <<>>, ciphertext |-> <<>>, dictionary |-> <<>>,
              targetPercentage |-> 0, maxIters |-> 0]
    /\ bestKey = <<>> /\ bestDecrypted = <<>> /\ bestWordStats = NoWordStats
    /\ bestScore = [num |-> 0, den |-> 1]
    /\ iterations = 0 /\ improved = FALSE /\ lastImprovedIteration = 0
    /\ foundBetter = FALSE /\ stagnating = FALSE /\ pos = 0
    /\ rPc = "idle"

StatIdle ==
    /\ sText = <<>> /\ sStats = NoWordStats /\ sIC = [num |-> 0, den |-> 1]
    /\ sPc = "idle"

NoTask ==
    [ciphertext |-> <<>>, maxKeyLength |-> 0, targetRecognition |-> 0,
     maxIterations |-> 0, useBruteForce |-> FALSE, knownKeys |-> <<>>,
     dictionary |-> <<>>]

CrackIdle ==
    /\ task = NoTask /\ wPc = "idle"
    /\ likelyKeyLengths = <<>> /\ lenIdx = 0 /\ bestResult = <<>>
    /\ topResults = <<>> /\ fullDecryption = <<>>
    /\ posted = <<>> /\ stepsRun = {}

-----------------------------------------------------------------------------
(* Bounds of the enumerated inputs *)

MaxLen == 3
MaxKeyLen == 2
\* the largest number of key positions and of options per position given to
\* generateKeys, and an option count whose square passes the cap
MaxPositions == 3
MaxOptions == 3
BigOptions == 72
\* the largest maxIterations given to refineKey
MaxIters == 12
\* the largest maxKeyLength and maxIterations of a task given to the worker
MaxKeyLength == 2
MaxTaskIters == 7
\* the longest text given to countRecognizedWords and calculateIC
MaxTextLen == 5
\* the number of crack requests the controller answers without a task
MaxRefused == 2
\* the size of the worker pool and the number of tasks submitted to it
PoolSize == 2
MaxTasks == 4

Workers == 1..PoolSize
TaskIds == 1..MaxTasks

\* a promise runTask has not created yet
NoPromise == [state |-> "none", of |-> 0, kind |-> "none"]

\* the pool as createWorkerPool leaves it
PoolIdle ==
    /\ busyWorkers = {} /\ taskQueue = <<>>
    /\ resolveOf = [w \in Workers |-> 0]
    /\ inbox = [w \in Workers |-> <<>>]
    /\ outbox = [w \in Workers |-> <<>>]
    /\ alive = [w \in Workers |-> TRUE]
    /\ errorEvent = [w \in Workers |-> FALSE]
    /\ promise = [t \in TaskIds |-> NoPromise]
    /\ submitted = 0
    /\ failed = FALSE
    /\ afterFailure = {}
    /\ sent = <<>>
    /\ everQueued = {}

\* a request the controller has not answered
NoResponse == [status |-> 0, body |-> "none"]

\* the controller when the module is loaded
CtlIdle ==
    /\ activeTasks = 0 /\ completedTasks = 0
    /\ response = [t \in TaskIds |-> NoResponse]
    /\ refused = 0

-----------------------------------------------------------------------------
(* Characters and strings *)

IsUpper(c) == c >= 65 /\ c <= 90
IsLower(c) == c >= 97 /\ c <= 122

\* /[a-z]/i and /[A-Z]/i on one character
IsLetter(c) == IsUpper(c) \/ IsLower(c)

ToUpperCase(c) == IF IsLower(c) THEN c - 32 ELSE c
ToLowerCase(c) == IF IsUpper(c) THEN c + 32 ELSE c

ToUpperStr(s) == [i \in 1..Len(s) |-> ToUpperCase(s[i])]
ToLowerStr(s) == [i \in 1..Len(s) |-> ToLowerCase(s[i])]

\* JavaScript's % : the remainder takes the sign of the dividend
JsRem(a, b) == IF a >= 0 THEN a % b ELSE 0 - ((0 - a) % b)

\* String.fromCharCode: the code taken modulo 2^16
FromCharCode(n) == n % 65536

LettersOnly(s) == \A i \in 1..Len(s) : IsLetter(s[i])

-----------------------------------------------------------------------------
(* decryptWithKey *)

\* upperKey[keyIndex % upperKey.length], keyIndex counted from 0
KeyCharAt_NoWrap(upperKey, keyIndex) ==
    upperKey[(IF keyIndex < Len(upperKey) THEN keyIndex ELSE Len(upperKey) - 1) + 1]

KeyCharAt(upperKey, keyIndex) == upperKey[(keyIndex % Len(upperKey)) + 1]

\* (charCode - keyCode + 26) % 26
DecryptedCode_NoBias(charCode, keyCode) == JsRem(charCode - keyCode, 26)

DecryptedCode(charCode, keyCode) == JsRem(charCode - keyCode + 26, 26)

\* keyIndex++ happens in the letter branch only
NextKeyIndex_Always(keyIndex, isLetter) == keyIndex + 1

NextKeyIndex(keyIndex, isLetter) == IF isLetter THEN keyIndex + 1 ELSE keyIndex

RECURSIVE DecryptLoop(_, _, _, _, _)
DecryptLoop(text, upperKey, i, keyIndex, result) ==
    IF i > Len(text) THEN result
    ELSE LET char == text[i] IN
         IF IsLetter(char)
         THEN LET isUpperCase   == (char = ToUpperCase(char))
                  charCode      == ToUpperCase(char) - 65
                  keyChar       == KeyCharAt(upperKey, keyIndex)
                  keyCode       == keyChar - 65
                  decryptedCode == DecryptedCode(charCode, keyCode)
                  upperChar     == FromCharCode(decryptedCode + 65)
                  decryptedChar == IF isUpperCase THEN upperChar
                                   ELSE ToLowerCase(upperChar)
              IN  DecryptLoop(text, upperKey, i + 1,
                              NextKeyIndex(keyIndex, TRUE),
                              Append(result, decryptedChar))
         ELSE DecryptLoop(text, upperKey, i + 1,
                          NextKeyIndex(keyIndex, FALSE),
                          Append(result, char))

decryptWithKey(text, key) ==
    IF key = <<>> THEN text
    ELSE DecryptLoop(text, ToUpperStr(key), 1, 0, <<>>)

\* The encryption the round trip is stated against: at each letter the key
\* letter's shift is added modulo 26, the case is kept, the key position
\* advances on letters only and every other character is copied.
RECURSIVE EncryptLoop(_, _, _, _, _)
EncryptLoop(text, upperKey, i, keyIndex, result) ==
    IF i > Len(text) THEN result
    ELSE LET char == text[i] IN
         IF IsLetter(char)
         THEN LET charCode  == ToUpperCase(char) - 65
                  keyCode   == upperKey[(keyIndex % Len(upperKey)) + 1] - 65
                  upperChar == ((charCode + keyCode) % 26) + 65
                  outChar   == IF IsUpper(char) THEN upperChar
                               ELSE ToLowerCase(upperChar)
              IN  EncryptLoop(text, upperKey, i + 1, keyIndex + 1,
                              Append(result, outChar))
         ELSE EncryptLoop(text, upperKey, i + 1, keyIndex, Append(result, char))

encryptVigenere(text, key) ==
    IF key = <<>> THEN text
    ELSE EncryptLoop(text, ToUpperStr(key), 1, 0, <<>>)

-----------------------------------------------------------------------------
(* Numbers *)

\* an exact fraction num/den, den > 0
Frac(n, d) == [num |-> n, den |-> d]

FracLt(a, b) ==
    IF a.den = b.den THEN a.num < b.num ELSE a.num * b.den < b.num * a.den

FracEq(a, b) ==
    IF a.den = b.den THEN a.num = b.num ELSE a.num * b.den = b.num * a.den

FracLe(a, b) == FracLt(a, b) \/ FracEq(a, b)

RECURSIVE Gcd(_, _)
Gcd(a, b) == IF b = 0 THEN a ELSE Gcd(b, a % b)

FracReduce(f) ==
    LET g == Gcd(IF f.num < 0 THEN 0 - f.num ELSE f.num, f.den)
    IN  IF g = 0 THEN f ELSE Frac(f.num \div g, f.den \div g)

FracAdd(a, b) == FracReduce(Frac(a.num * b.den + b.num * a.den, a.den * b.den))

FracDivInt(a, n) == FracReduce(Frac(a.num, a.den * n))

Min(a, b) == IF a < b THEN a ELSE b

\* an array holds its elements: the function f over 1..n as a stored sequence
Array(f) == f \o <<>>

\* the comparators given to Array.prototype.sort: a goes before b when the
\* comparator's result is negative
CombinedBefore(a, b) == a.combinedScore < b.combinedScore
CompositeBefore_Ascending(a, b) == FracLt(a.compositeScore, b.compositeScore)
CompositeBefore(a, b) == FracLt(b.compositeScore, a.compositeScore)
AvgICBefore(a, b) == FracLt(b.avgIC, a.avgIC)

Before(order, a, b) ==
    CASE order = "combinedScore"  -> CombinedBefore(a, b)
      [] order = "compositeScore" -> CompositeBefore(a, b)
      [] order = "avgIC"          -> AvgICBefore(a, b)

\* Array.prototype.sort with a comparator, which is stable: s[i] comes before
\* s[j] when it must precede it, or when neither precedes the other and i < j
StableSort(array, order) ==
    LET s == Array(array)
        place(i) == 1 + Cardinality({j \in 1..Len(s) :
                            \/ Before(order, s[j], s[i])
                            \/ (j < i /\ ~Before(order, s[i], s[j]))})
    IN  Array([p \in 1..Len(s) |-> s[CHOOSE i \in 1..Len(s) : place(i) = p]])

\* Array.prototype.slice(0, n)
Slice(s, n) == SubSeq(s, 1, Min(n, Len(s)))

-----------------------------------------------------------------------------
(* Letter statistics *)

\* ENGLISH_FREQUENCIES for A..Z, in units of 1/10000
ENGLISH_FREQUENCIES ==
    <<812, 149, 271, 432, 1202, 230, 203, 592, 731, 10, 69, 398, 261,
      695, 768, 182, 11, 602, 628, 910, 288, 111, 209, 17, 211, 7>>

\* text.toUpperCase().replace(/[^A-Z]/g, "")
CleanText(text) == SelectSeq(ToUpperStr(text), IsUpper)

LetterCount(text, letter) ==
    Cardinality({i \in 1..Len(text) : ToUpperCase(text[i]) = letter})

\* sum of f[i] for i in lo..hi
RECURSIVE SumOver(_, _, _)
SumOver(f, lo, hi) == IF lo > hi THEN 0 ELSE f[lo] + SumOver(f, lo + 1, hi)

\* the sum over length squared
calculateIC_Squared(text) ==
    LET cleanText == CleanText(text)
        length    == Len(cleanText)
        terms     == [i \in 1..26 |->
                         LET count == LetterCount(cleanText, 64 + i)
                         IN  count * (count - 1)]
        sum       == SumOver(terms, 1, 26)
    IN  IF length <= 1 THEN Frac(0, 1)
        ELSE Frac(sum, length * length)

\* calculateIC: sum of n(n-1) over the letters, over length(length-1)
calculateIC(text) ==
    LET cleanText == CleanText(text)
        length    == Len(cleanText)
        terms     == [i \in 1..26 |->
                         LET count == LetterCount(cleanText, 64 + i)
                         IN  count * (count - 1)]
        sum       == SumOver(terms, 1, 26)
    IN  IF length <= 1 THEN Frac(0, 1)
        ELSE Frac(sum, length * (length - 1))

\* getFrequencies: for A..Z the share of the letter among the letters of the
\* text, in units of 1/10000; 0 stands for a letter the table does not hold
getFrequencies(text) ==
    LET total == Len(CleanText(text))
    IN  Array([i \in 1..26 |->
            LET count == LetterCount(text, 64 + i)
            IN  IF count = 0 THEN 0 ELSE (count * 10000) \div total])

\* calculateChiSquared, in units of 1/10000
calculateChiSquared(frequencies) ==
    LET terms == [i \in 1..26 |->
                     LET observed == frequencies[i]
                         expected == ENGLISH_FREQUENCIES[i]
                     IN  IF expected > 0
                         THEN ((observed - expected) * (observed - expected))
                                  \div expected
                         ELSE 0]
    IN  SumOver(terms, 1, 26)

\* getSequences: the j-th letter of the text goes to sequence j % keyLength
getSequences(text, keyLength) ==
    LET letters == SelectSeq(text, IsLetter)
    IN  Array([p \in 1..keyLength |->
            LET idx == {j \in 1..Len(letters) : (j - 1) % keyLength = p - 1}
                nth(k) == CHOOSE j \in idx : Cardinality({m \in idx : m < j}) = k - 1
            IN  Array([k \in 1..Cardinality(idx) |-> letters[nth(k)]])])

\* the Caesar decryption of findBestShifts' inner loop
CaesarShift(sequence, shift) ==
    [i \in 1..Len(sequence) |->
        LET code == sequence[i]
        IN  IF code >= 65 /\ code <= 90
            THEN FromCharCode(JsRem(code - 65 - shift + 26, 26) + 65)
            ELSE IF code >= 97 /\ code <= 122
                 THEN FromCharCode(JsRem(code - 97 - shift + 26, 26) + 97)
                 ELSE code]

\* one entry of findBestShifts' results; distributionScore is in units of
\* 1/10000 and combinedScore, chiSquared - distributionScore * 0.5, in units
\* of 1/20000
ShiftResult(sequence, shift) ==
    LET decrypted   == CaesarShift(sequence, shift)
        frequencies == getFrequencies(decrypted)
        chiSquared  == calculateChiSquared(frequencies)
        terms       == [i \in 1..26 |->
                           (frequencies[i] * ENGLISH_FREQUENCIES[i]) \div 100]
        distributionScore == SumOver(terms, 1, 26)
    IN  [shift |-> shift, chiSquared |-> chiSquared,
         distributionScore |-> distributionScore,
         combinedScore |-> 2 * chiSquared - distributionScore]

\* findBestShifts: the numOptions shifts of lowest combinedScore
findBestShifts(sequence, numOptions) ==
    LET results == [s \in 1..26 |-> ShiftResult(sequence, s - 1)]
        sorted  == StableSort(results, "combinedScore")
        top     == Slice(sorted, numOptions)
    IN  Array([i \in 1..Len(top) |-> top[i].shift])

\* shiftsToKey
shiftsToKey(shifts) == [i \in 1..Len(shifts) |-> FromCharCode(shifts[i] + 65)]

-----------------------------------------------------------------------------
(* Word recognition *)

\* text.toLowerCase().split(/[^a-z]+/).filter(word => word.length > 0):
\* the maximal runs of letters
RECURSIVE SplitWords(_, _, _, _)
SplitWords(lower, i, current, words) ==
    IF i > Len(lower)
    THEN IF current = <<>> THEN words ELSE Append(words, current)
    ELSE IF IsLower(lower[i])
         THEN SplitWords(lower, i + 1, Append(current, lower[i]), words)
         ELSE SplitWords(lower, i + 1, <<>>,
                         IF current = <<>> THEN words ELSE Append(words, current))

\* dictionary[word], 0 standing for undefined; weights are in tenths
Lookup(dictionary, word) ==
    IF word \in DOMAIN dictionary THEN dictionary[word] ELSE 0

\* countRecognizedWords; percentage and weightedScore are exact fractions
countRecognizedWords(text, dictionary) ==
    LET words == SplitWords(ToLowerStr(text), 1, <<>>, <<>>)
        weights == [i \in 1..Len(words) |->
                       IF Len(words[i]) >= 2 THEN Lookup(dictionary, words[i])
                       ELSE 0]
        recognizedCount == Cardinality({i \in 1..Len(words) : weights[i] > 0})
        totalWeight == SumOver(weights, 1, Len(words))
    IN  [count |-> recognizedCount,
         total |-> Len(words),
         percentage |-> IF Len(words) > 0
                        THEN Frac(recognizedCount * 100, Len(words))
                        ELSE Frac(0, 1),
         weightedScore |-> IF Len(words) > 0
                           THEN Frac(totalWeight, 10 * Len(words))
                           ELSE Frac(0, 1)]

\* percentage * 0.7 + weightedScore * 15, as a fraction over 50000 times the
\* denominator of the percentage (the number of words)
WordScore(percentage, weightedScore) ==
    LET den == 50000 * percentage.den
    IN  Frac((7 * ((percentage.num * den) \div percentage.den)) \div 10
                 + (15 * weightedScore.num * den) \div weightedScore.den,
             den)

\* percentage * 0.7 + weightedScore * 15 - chiSquared * 0.2, over the same
\* denominator
CompositeScore(percentage, weightedScore, chiSquared) ==
    LET words == WordScore(percentage, weightedScore)
    IN  Frac(words.num - chiSquared * percentage.den, words.den)

\* rateKeyQuality
rateKeyQuality(key, ciphertext, dictionary) ==
    LET decrypted   == decryptWithKey(ciphertext, key)
        wordStats   == countRecognizedWords(decrypted, dictionary)
        frequencies == getFrequencies(decrypted)
        chiSquared  == calculateChiSquared(frequencies)
    IN  [key |-> key, decrypted |-> decrypted, wordStats |-> wordStats,
         chiSquared |-> chiSquared,
         compositeScore |-> CompositeScore(wordStats.percentage,
                                           wordStats.weightedScore, chiSquared)]

-----------------------------------------------------------------------------
(* generateKeys *)

\* the cap on the number of combinations
MaxCombinations == 5000

\* one pass of the outer loop: every combination extended by every option
ExpandCombinations(combinations, options) ==
    LET n == Len(options)
    IN  [k \in 1..(Len(combinations) * n) |->
            Append(combinations[((k - 1) \div n) + 1], options[((k - 1) % n) + 1])]

\* if (combinations.length > 5000) combinations = combinations.slice(0, 5000)
CapCombinations(combinations) ==
    IF Len(combinations) > MaxCombinations
    THEN Slice(combinations, MaxCombinations)
    ELSE combinations

RECURSIVE GenerateLoop(_, _, _)
GenerateLoop(shiftOptions, i, combinations) ==
    IF i > Len(shiftOptions) THEN combinations
    ELSE GenerateLoop(shiftOptions, i + 1,
             CapCombinations(ExpandCombinations(combinations, shiftOptions[i])))

generateKeys(shiftOptions) ==
    LET first == [k \in 1..Len(shiftOptions[1]) |-> <<shiftOptions[1][k]>>]
        combinations == GenerateLoop(shiftOptions, 2, first)
    IN  Array([k \in 1..Len(combinations) |-> Array(shiftsToKey(combinations[k]))])

-----------------------------------------------------------------------------
(* Inputs of the decryption specification *)

\* A, Z, b and y; a space and the characters next to the letter ranges
TextChars == {65, 90, 98, 121, 32, 91}
KeyChars  == {66, 90, 99}

RECURSIVE StringsUpTo(_, _)
StringsUpTo(chars, n) ==
    IF n = 0 THEN {<<>>}
    ELSE LET shorter == StringsUpTo(chars, n - 1)
         IN  shorter \cup {Append(s, c) : s \in {t \in shorter : Len(t) = n - 1},
                                          c \in chars}

\* "LXFOPVEFRNHR", "LEMON" and "ATTACKATDAWN"
LemonCipher == <<76, 88, 70, 79, 80, 86, 69, 70, 82, 78, 72, 82>>
LemonKey    == <<76, 69, 77, 79, 78>>
AttackAtDawn == <<65, 84, 84, 65, 67, 75, 65, 84, 68, 65, 87, 78>>

\* "Lxf-opv efr!" : mixed case with characters that are not letters
MixedCipher == <<76, 120, 102, 45, 111, 112, 118, 32, 101, 102, 114, 33>>

DecryptInputs ==
    {<<t, k>> : t \in StringsUpTo(TextChars, MaxLen),
                k \in StringsUpTo(KeyChars, MaxKeyLen) \ {<<>>}}
    \cup {<<LemonCipher, LemonKey>>, <<AttackAtDawn, LemonKey>>,
          <<MixedCipher, LemonKey>>, <<MixedCipher, ToLowerStr(LemonKey)>>}

DecryptInit ==
    /\ \E in \in DecryptInputs : dText = in[1] /\ dKey = in[2]
    /\ dEnc = <<>>
    /\ dOut = <<>>
    /\ dPc = "start"
    /\ GenIdle /\ RefIdle /\ CrackIdle /\ PoolIdle /\ CtlIdle /\ StatIdle

\* decryptWithKey(text, key)
DecryptCall ==
    /\ dPc = "start"
    /\ dOut' = decryptWithKey(dText, dKey)
    /\ dPc' = "decrypted"
    /\ UNCHANGED <<dText, dKey, dEnc, notDec>>

\* the encryption of the text under the key
EncryptCall ==
    /\ dPc = "start"
    /\ dEnc' = encryptVigenere(dText, dKey)
    /\ dPc' = "encrypted"
    /\ UNCHANGED <<dText, dKey, dOut, notDec>>

\* decryptWithKey(encrypt(text, key), key)
DecryptEncrypted ==
    /\ dPc = "encrypted"
    /\ dOut' = decryptWithKey(dEnc, dKey)
    /\ dPc' = "roundtrip"
    /\ UNCHANGED <<dText, dKey, dEnc, notDec>>

DecryptNext == DecryptCall \/ EncryptCall \/ DecryptEncrypted

SpecDecrypt == DecryptInit /\ [][DecryptNext]_vars


-----------------------------------------------------------------------------
(* Properties of decryptWithKey *)

\* the value 0..25 of a letter of either case
LetterValue(c) == ToUpperCase(c) - 65

\* the number of letters of the text before position i
LettersBefore(text, i) == Cardinality({j \in 1..(i - 1) : IsLetter(text[j])})

\* the shift of the key letter that serves the j-th letter, j counted from 0
KeyShift(key, j) == LetterValue(key[(j % Len(key)) + 1])

\* C1: round trip. For a letters-only plaintext and a non-empty letters-only
\* key, decrypting the encryption of the plaintext under the same key gives
\* the plaintext back.
C1_RoundTrip ==
    (dPc = "roundtrip" /\ LettersOnly(dText) /\ LettersOnly(dKey) /\ dKey # <<>>)
        => dOut = dText

\* a round trip of a letters-only text in which the encryption wrapped around
\* the alphabet at one letter and did not at another
C1_Witness ==
    /\ dPc = "roundtrip"
    /\ LettersOnly(dText) /\ LettersOnly(dKey) /\ dKey # <<>>
    /\ \E i, j \in 1..Len(dText) :
          /\ LetterValue(dEnc[i]) < LetterValue(dText[i])
          /\ LetterValue(dEnc[j]) > LetterValue(dText[j])
    /\ dOut = dText

\* C2: for a letters-only ciphertext and a non-empty uppercase key the output
\* is the standard Vigenere decryption, letter i being
\* (C[i] - K[i mod |K|]) mod 26, and "LXFOPVEFRNHR" under "LEMON" is
\* "ATTACKATDAWN".
C2_StandardDecryption ==
    (dPc = "decrypted" /\ LettersOnly(dText) /\ dKey # <<>>
        /\ \A k \in 1..Len(dKey) : IsUpper(dKey[k]))
        => /\ Len(dOut) = Len(dText)
           /\ \A i \in 1..Len(dText) :
                 /\ IsLetter(dOut[i])
                 /\ LetterValue(dOut[i]) =
                       (LetterValue(dText[i])
                           - (dKey[((i - 1) % Len(dKey)) + 1] - 65) + 26) % 26
           /\ (dText = LemonCipher /\ dKey = LemonKey) => dOut = AttackAtDawn

\* the LEMON vector has been decrypted
C2_Witness ==
    dPc = "decrypted" /\ dText = LemonCipher /\ dKey = LemonKey
        /\ dOut = AttackAtDawn

\* C3: for every text and non-empty letters-only key the output has the
\* length of the text, every character that is not a letter is unchanged in
\* its place, every letter keeps its case, and the j-th letter (counting
\* letters only) is shifted back by key[j mod key.length].
C3_PositionalPreservation ==
    (dPc = "decrypted" /\ LettersOnly(dKey) /\ dKey # <<>>)
        => /\ Len(dOut) = Len(dText)
           /\ \A i \in 1..Len(dText) :
                 /\ ~IsLetter(dText[i]) => dOut[i] = dText[i]
                 /\ IsUpper(dText[i]) => IsUpper(dOut[i])
                 /\ IsLower(dText[i]) => IsLower(dOut[i])
                 /\ IsLetter(dText[i]) =>
                       LetterValue(dOut[i]) =
                           (LetterValue(dText[i])
                               - KeyShift(dKey, LettersBefore(dText, i)) + 26) % 26

\* a decrypted text with a character that is not a letter between two
\* letters, of both cases, under a key of more than one letter
C3_Witness ==
    /\ dPc = "decrypted" /\ LettersOnly(dKey) /\ Len(dKey) >= 2
    /\ \E i, j, k \in 1..Len(dText) :
          /\ i < j /\ j < k
          /\ IsUpper(dText[i]) /\ ~IsLetter(dText[j]) /\ IsLower(dText[k])
          /\ dOut[j] = dText[j] /\ dOut[k] # dText[k]


-----------------------------------------------------------------------------
(* The dictionary the controller builds from its word list *)

\* at it to as is an in on no of the and
CommonWords ==
    <<<<97, 116>>, <<105, 116>>, <<116, 111>>, <<97, 115>>, <<105, 115>>,
      <<97, 110>>, <<105, 110>>, <<111, 110>>, <<110, 111>>, <<111, 102>>,
      <<116, 104, 101>>, <<97, 110, 100>>>>

\* the weight, in tenths, the controller gives the word at an index of the list
WordWeight(word, index) ==
    10 + (IF Len(word) > 2 THEN (Len(word) - 2) * 3 ELSE 0)
       + (IF index < 500 THEN 8 ELSE 0)

\* the reduce over the word list: a later occurrence of a word overwrites
DictionaryOf(wordList) ==
    [w \in {wordList[i] : i \in 1..Len(wordList)} |->
        LET last == CHOOSE i \in 1..Len(wordList) :
                        /\ wordList[i] = w
                        /\ \A j \in (i + 1)..Len(wordList) : wordList[j] # w
        IN  WordWeight(w, last - 1)]

Dictionary == DictionaryOf(CommonWords)

\* a dictionary of the first two words only
SmallDictionary == DictionaryOf(SubSeq(CommonWords, 1, 2))

-----------------------------------------------------------------------------
(* generateKeys as a call *)

\* n options for one position: the shifts 0, 1, 2, ... taken modulo 26
OptionsOfSize(n) == [k \in 1..n |-> (k - 1) % 26]

ShapesUpTo(sizes, n) == StringsUpTo(sizes, n) \ {<<>>}

\* the sizes of the option lists, position by position
GenerateShapes ==
    ShapesUpTo(0..MaxOptions, MaxPositions)
    \cup {<<MaxCombinations + 1>>, <<MaxCombinations + 1, 2>>,
          <<MaxCombinations>>, <<BigOptions, BigOptions>>,
          <<BigOptions, BigOptions, 2>>, <<26>>, <<26, 26>>}

GenerateInit ==
    /\ \E shape \in GenerateShapes :
          gOptions = [i \in 1..Len(shape) |-> OptionsOfSize(shape[i])]
    /\ gKeys = <<>>
    /\ gPc = "start"
    /\ DecIdle /\ RefIdle /\ CrackIdle /\ PoolIdle /\ CtlIdle /\ StatIdle

\* generateKeys(shiftOptions)
GenerateCall ==
    /\ gPc = "start"
    /\ gKeys' = generateKeys(gOptions)
    /\ gPc' = "done"
    /\ UNCHANGED <<gOptions, notGen>>

GenerateNext == GenerateCall

SpecGenerate == GenerateInit /\ [][GenerateNext]_vars

\* C7: generateKeys never returns more than 5000 keys, whatever the sizes of
\* the option lists, a single position and a first position of more than 5000
\* options included.
C7_AtMost5000 == gPc = "done" => Len(gKeys) <= MaxCombinations

\* the cap bounds the result whenever there are two positions or more
GenerateCappedFromTwoPositions ==
    (gPc = "done" /\ Len(gOptions) >= 2) => Len(gKeys) <= MaxCombinations


-----------------------------------------------------------------------------
(* refineKey *)

\* key with the letter at position p (from 0) replaced by the letter of shift
ReplaceLetter(key, p, shift) ==
    SubSeq(key, 1, p) \o <<FromCharCode(65 + shift)>> \o SubSeq(key, p + 2, Len(key))

\* key with the letters at positions p and p + 1 (from 0) exchanged
SwapAdjacent(key, p) ==
    SubSeq(key, 1, p) \o <<key[p + 2], key[p + 1]>> \o SubSeq(key, p + 3, Len(key))

\* the word statistics of the ciphertext decrypted with a key
StatsOfKey(key) == countRecognizedWords(decryptWithKey(rIn.ciphertext, key),
                                        rIn.dictionary)

\* wordStats.percentage > bestScore
Improves_Reversed(wordStats, score) == FracLt(wordStats.percentage, score)

Improves(wordStats, score) == FracLt(score, wordStats.percentage)

\* the condition of the while loop
WhileCondition_NoCap(score, target, iters, maxIters, lastImproved) ==
    \/ (FracLt(score, Frac(target, 1)) /\ iters < maxIters)
    \/ (iters - lastImproved < 10)

WhileCondition(score, target, iters, maxIters, lastImproved) ==
    \/ (FracLt(score, Frac(target, 1)) /\ iters < maxIters)
    \/ (iters < maxIters /\ iters - lastImproved < 10)

\* Math.min(Math.floor((iterations - lastImprovedIteration) / 3) + 1,
\*          Math.floor(bestKey.length / 2))
ChangeCount(iters, lastImproved, keyLength) ==
    Min(((iters - lastImproved) \div 3) + 1, keyLength \div 2)

\* the keys that n substitutions of a random letter at a random position can
\* make of a key
RECURSIVE RandomMutations(_, _)
RandomMutations(key, n) ==
    IF n = 0 THEN {key}
    ELSE {ReplaceLetter(k, p, shift) :
              k \in RandomMutations(key, n - 1),
              p \in 0..(Len(key) - 1), shift \in 0..25}

\* the assignments without the one to improved
TakeKey_NoFlag(newKey) ==
    /\ bestKey' = newKey
    /\ bestScore' = StatsOfKey(newKey).percentage
    /\ bestDecrypted' = decryptWithKey(rIn.ciphertext, newKey)
    /\ bestWordStats' = StatsOfKey(newKey)
    /\ improved' = improved
    /\ lastImprovedIteration' = iterations

\* the assignments made when a better key is taken
TakeKey(newKey) ==
    /\ bestKey' = newKey
    /\ bestScore' = StatsOfKey(newKey).percentage
    /\ bestDecrypted' = decryptWithKey(rIn.ciphertext, newKey)
    /\ bestWordStats' = StatsOfKey(newKey)
    /\ improved' = TRUE
    /\ lastImprovedIteration' = iterations

\* the first statements of refineKey
RefineStart ==
    /\ rPc = "call"
    /\ bestKey' = rIn.initialKey
    /\ bestDecrypted' = decryptWithKey(rIn.ciphertext, rIn.initialKey)
    /\ bestWordStats' = StatsOfKey(rIn.initialKey)
    /\ bestScore' = StatsOfKey(rIn.initialKey).percentage
    /\ iterations' = 0
    /\ improved' = FALSE
    /\ lastImprovedIteration' = 0
    /\ foundBetter' = FALSE /\ stagnating' = FALSE /\ pos' = 0
    /\ rPc' = "while"
    /\ UNCHANGED rIn
    /\ UNCHANGED notRef

\* the test of the while loop and the head of its body
RefineWhile ==
    /\ rPc = "while"
    /\ IF WhileCondition(bestScore, rIn.targetPercentage, iterations,
                         rIn.maxIters, lastImprovedIteration)
       THEN /\ iterations' = iterations + 1
            /\ foundBetter' = FALSE
            /\ stagnating' = (iterations + 1 - lastImprovedIteration > 5)
            /\ pos' = 0
            /\ rPc' = IF Len(bestKey) > 0 THEN "single" ELSE "random"
       ELSE /\ rPc' = "returned"
            /\ UNCHANGED <<iterations, foundBetter, stagnating, pos>>
    /\ UNCHANGED <<rIn, bestKey, bestDecrypted, bestWordStats, bestScore,
                   improved, lastImprovedIteration>>
    /\ UNCHANGED notRef

\* the 26 letters tried at position pos in a shuffled order: the first one
\* that improves is taken, and any improving one can be first
RefineSingle ==
    /\ rPc = "single"
    /\ LET better == {shift \in 0..25 :
                         /\ bestKey[pos + 1] - 65 # shift
                         /\ Improves(StatsOfKey(ReplaceLetter(bestKey, pos, shift)),
                                     bestScore)}
       IN  IF better # {}
           THEN /\ \E shift \in better : TakeKey(ReplaceLetter(bestKey, pos, shift))
                /\ foundBetter' = TRUE
                /\ rPc' = "target"
           ELSE /\ rPc' = "swap"
                /\ UNCHANGED <<bestKey, bestDecrypted, bestWordStats, bestScore,
                               improved, lastImprovedIteration, foundBetter>>
    /\ UNCHANGED <<rIn, iterations, stagnating, pos>>
    /\ UNCHANGED notRef

\* the swap of the letters at pos and pos + 1, tried when stagnating, and the
\* step of the for loop
RefineSwap ==
    /\ rPc = "swap"
    /\ IF /\ stagnating /\ pos < Len(bestKey) - 1
          /\ Improves(StatsOfKey(SwapAdjacent(bestKey, pos)), bestScore)
       THEN /\ TakeKey(SwapAdjacent(bestKey, pos))
            /\ foundBetter' = TRUE
            /\ rPc' = "target"
            /\ pos' = pos
       ELSE /\ pos' = pos + 1
            /\ rPc' = IF pos + 1 < Len(bestKey) THEN "single" ELSE "random"
            /\ UNCHANGED <<bestKey, bestDecrypted, bestWordStats, bestScore,
                           improved, lastImprovedIteration, foundBetter>>
    /\ UNCHANGED <<rIn, iterations, stagnating>>
    /\ UNCHANGED notRef

\* the random changes made when nothing was found: the changed key is taken
\* if it improves, and dropped otherwise
RefineRandom ==
    /\ rPc = "random"
    /\ LET candidates == RandomMutations(bestKey,
                             ChangeCount(iterations, lastImprovedIteration,
                                         Len(bestKey)))
           better == {k \in candidates : Improves(StatsOfKey(k), bestScore)}
       IN  \/ \E newKey \in better : TakeKey(newKey)
           \/ /\ better # candidates
              /\ UNCHANGED <<bestKey, bestDecrypted, bestWordStats, bestScore,
                             improved, lastImprovedIteration>>
    /\ rPc' = "target"
    /\ UNCHANGED <<rIn, iterations, foundBetter, stagnating, pos>>
    /\ UNCHANGED notRef

TargetMet_Never(score, target) == FALSE

\* bestScore >= targetPercentage
TargetMet(score, target) == FracLe(Frac(target, 1), score)

\* if (bestScore >= targetPercentage) break
RefineTarget ==
    /\ rPc = "target"
    /\ rPc' = IF TargetMet(bestScore, rIn.targetPercentage)
              THEN "returned" ELSE "while"
    /\ UNCHANGED <<rIn, refLocals>>
    /\ UNCHANGED notRef

RefineStep ==
    RefineStart \/ RefineWhile \/ RefineSingle \/ RefineSwap \/ RefineRandom
        \/ RefineTarget

\* the object with the decryption of the seed key in place of the best one
RefinementResult_SeedText ==
    [finalKey |-> bestKey, improved |-> improved, iterations |-> iterations,
     wordStats |-> bestWordStats,
     decrypted |-> decryptWithKey(rIn.ciphertext, rIn.initialKey)]

\* the object refineKey returns
RefinementResult ==
    [finalKey |-> bestKey, improved |-> improved, iterations |-> iterations,
     wordStats |-> bestWordStats, decrypted |-> bestDecrypted]

-----------------------------------------------------------------------------
(* refineKey as a call *)

\* "bv jv uq" and "bv lx": "at it to" under BC, "at it" under BCDE
CipherTwo  == <<98, 118, 32, 106, 118, 32, 117, 113>>
CipherFour == <<98, 118, 32, 108, 120>>

\* JD, AA, CB, BC, b ; AAAA, BCED
SeedsTwo  == {<<74, 68>>, <<65, 65>>, <<67, 66>>, <<66, 67>>, <<98>>}
SeedsFour == {<<65, 65, 65, 65>>, <<66, 67, 69, 68>>}

RefineInputs ==
    {[initialKey |-> k, ciphertext |-> CipherTwo, dictionary |-> d,
      targetPercentage |-> t, maxIters |-> m] :
        k \in SeedsTwo, d \in {Dictionary, SmallDictionary},
        t \in {0, 50, 100}, m \in (0 - 1)..MaxIters}
    \cup
    {[initialKey |-> k, ciphertext |-> CipherFour, dictionary |-> Dictionary,
      targetPercentage |-> 50, maxIters |-> m] :
        k \in SeedsFour, m \in {4, MaxIters}}
    \cup
    {[initialKey |-> k, ciphertext |-> CipherFour, dictionary |-> Dictionary,
      targetPercentage |-> 100, maxIters |-> 4] : k \in SeedsFour}
    \cup
    {[initialKey |-> <<66, 67, 69, 68>>, ciphertext |-> CipherFour,
      dictionary |-> Dictionary, targetPercentage |-> 100, maxIters |-> MaxIters]}

RefineInit ==
    /\ rIn \in RefineInputs
    /\ bestKey = <<>> /\ bestDecrypted = <<>> /\ bestWordStats = NoWordStats
    /\ bestScore = Frac(0, 1)
    /\ iterations = 0 /\ improved = FALSE /\ lastImprovedIteration = 0
    /\ foundBetter = FALSE /\ stagnating = FALSE /\ pos = 0
    /\ rPc = "call"
    /\ DecIdle /\ GenIdle /\ CrackIdle /\ PoolIdle /\ CtlIdle /\ StatIdle

RefineNext == RefineStep

SpecRefine == RefineInit /\ [][RefineNext]_vars

\* the recognition percentage of the seed key of the call
SeedPercentage == StatsOfKey(rIn.initialKey).percentage

\* C6: refineKey returns with iterations <= maxIterations (0 iterations when
\* maxIterations <= 0) and with wordStats.percentage at least the recognition
\* percentage of the seed key, whatever the random choices; and bestScore
\* never decreases from one step to the next.
C6_RefineBounded ==
    /\ [](rPc \in {"while", "single", "swap", "random", "target", "returned"}
            => /\ iterations <= (IF rIn.maxIters > 0 THEN rIn.maxIters ELSE 0)
               /\ FracLe(SeedPercentage, bestScore)
               /\ bestWordStats.percentage = bestScore)
    /\ [](rPc = "returned"
            => FracLe(SeedPercentage, RefinementResult.wordStats.percentage))
    /\ [][rPc # "call" => FracLe(bestScore, bestScore')]_vars

\* a call that returned at its last allowed iteration, after two of them or
\* more, with a key better than the seed
C6_Witness ==
    /\ rPc = "returned"
    /\ iterations = rIn.maxIters /\ iterations >= 2
    /\ lastImprovedIteration = iterations
    /\ FracLt(SeedPercentage, bestWordStats.percentage)

\* C18: when bestScore >= targetPercentage at the end of an iteration,
\* refineKey returns without another iteration; it returns only with
\* bestScore >= targetPercentage or with iterations = maxIterations (0 for a
\* maxIterations below 0, which allows no iteration); and with a seed key that
\* meets the target and maxIterations >= 1 it runs exactly one iteration
C18_EarlyTermination ==
    /\ [][(rPc = "target" /\ FracLe(Frac(rIn.targetPercentage, 1), bestScore))
            => (rPc' = "returned" /\ iterations' = iterations)]_vars
    /\ [][rPc = "returned" => rPc' = "returned"]_vars
    /\ [](rPc = "returned"
            => \/ FracLe(Frac(rIn.targetPercentage, 1), bestScore)
               \/ iterations = (IF rIn.maxIters > 0 THEN rIn.maxIters ELSE 0))
    /\ [](( /\ rPc = "returned"
            /\ FracLe(Frac(rIn.targetPercentage, 1), SeedPercentage)
            /\ rIn.maxIters >= 1 )
            => iterations = 1)

\* a seed key that meets a target above 0, with 2 iterations or more allowed:
\* refineKey has returned after one
C18_Witness ==
    /\ rPc = "returned"
    /\ rIn.targetPercentage > 0
    /\ FracLe(Frac(rIn.targetPercentage, 1), SeedPercentage)
    /\ rIn.maxIters >= 2
    /\ iterations = 1

\* the swap of the letters at pos and pos + 1 is about to be evaluated
SwapEvaluated == rPc = "swap" /\ stagnating /\ pos < Len(bestKey) - 1

\* the key positions whose single-letter substitutions this iteration has
\* tried: the for loop is at pos, past its substitutions
SinglesTried == IF rPc \in {"swap", "random"} THEN 0..pos ELSE 0..(pos - 1)

\* C19: within an iteration a swap is evaluated only after the single-letter
\* substitutions of every key position have been tried without improvement,
\* and only with iterations - lastImprovedIteration > 5; the random change is
\* evaluated only when nothing improved in the iteration
C19_SwapAfterAllSingles ==
    /\ SwapEvaluated
          => /\ \A p \in 0..(Len(bestKey) - 1) : p \in SinglesTried
             /\ ~foundBetter
             /\ iterations - lastImprovedIteration > 5
    /\ rPc = "random" => ~foundBetter

\* what of it the code does: the swap at a position follows the substitutions
\* of the positions up to it only
SwapAfterOwnSingles ==
    /\ SwapEvaluated
          => /\ ~foundBetter
             /\ iterations - lastImprovedIteration > 5
    /\ rPc = "random" => ~foundBetter

\* C13: in the value refineKey returns, improved is true exactly when finalKey
\* differs from the seed key and its recognition percentage is strictly
\* greater than the seed's; when improved is false, finalKey is the seed key
C13_ImprovedIffBetter ==
    rPc = "returned"
        => /\ RefinementResult.improved
                <=> /\ RefinementResult.finalKey # rIn.initialKey
                    /\ FracLt(SeedPercentage,
                              StatsOfKey(RefinementResult.finalKey).percentage)
           /\ ~RefinementResult.improved
                => RefinementResult.finalKey = rIn.initialKey

\* a call that returned another key than its seed, found in its second
\* iteration or later
C13_Witness ==
    /\ rPc = "returned"
    /\ RefinementResult.improved
    /\ RefinementResult.finalKey # rIn.initialKey
    /\ lastImprovedIteration >= 2

-----------------------------------------------------------------------------
(* The worker: the message handler, processTask and the two strategies *)

\* results.slice(0, 5) and decrypted.substring(0, 100)
TopCount == 5
PreviewLength == 100
\* cleanText.length < 20
MinLetters == 20
\* findBestShifts(seq, 3)
ShiftOptionCount == 3

\* parentPort.postMessage
Post(message) == posted' = Append(posted, message)

\* the call of refineKey with the task's arguments
CallRefine(key) ==
    /\ rIn' = [initialKey |-> key, ciphertext |-> task.ciphertext,
               dictionary |-> task.dictionary,
               targetPercentage |-> task.targetRecognition,
               maxIters |-> task.maxIterations]
    /\ rPc' = "call"
    /\ stepsRun' = stepsRun \cup {"refine"}
    /\ UNCHANGED refLocals

\* processTask: the choice of the strategy
ProcessTask ==
    /\ wPc = "received"
    /\ wPc' = IF task.useBruteForce /\ Len(task.knownKeys) > 0
              THEN "bruteForce" ELSE "cryptanalysis"
    /\ UNCHANGED <<task, crackLocals, posted, stepsRun, refVars, notCrack>>

\* the entry bruteForceCrack makes for one known key
BruteForceEntry(key) ==
    LET decrypted   == decryptWithKey(task.ciphertext, key)
        wordStats   == countRecognizedWords(decrypted, task.dictionary)
        frequencies == getFrequencies(decrypted)
        chiSquared  == calculateChiSquared(frequencies)
    IN  [key |-> key, keyLength |-> Len(key), wordStats |-> wordStats,
         chiSquared |-> chiSquared,
         compositeScore |-> CompositeScore(wordStats.percentage,
                                           wordStats.weightedScore, chiSquared),
         preview |-> Slice(decrypted, PreviewLength)]

\* bruteForceCrack up to the call of refineKey, or to its return without one
BruteForceCrack ==
    /\ wPc = "bruteForce"
    /\ LET results == [i \in 1..Len(task.knownKeys) |->
                          BruteForceEntry(task.knownKeys[i])]
           sorted  == StableSort(results, "compositeScore")
           top     == Slice(sorted, TopCount)
           full    == IF Len(top) > 0
                      THEN decryptWithKey(task.ciphertext, top[1].key)
                      ELSE <<>>
       IN  /\ topResults' = top
           /\ fullDecryption' = full
           /\ IF /\ Len(top) > 0
                 /\ FracLt(top[1].wordStats.percentage,
                           Frac(task.targetRecognition, 1))
              THEN /\ CallRefine(top[1].key)
                   /\ wPc' = "bruteForceRefine"
                   /\ UNCHANGED posted
              ELSE /\ Post([topResults |-> top, fullDecryption |-> full,
                            method |-> "brute-force"])
                   /\ wPc' = "posted"
                   /\ UNCHANGED <<refVars, stepsRun>>
    /\ UNCHANGED <<task, likelyKeyLengths, lenIdx, bestResult, notCrack>>

\* the entry bruteForceCrack puts in front for the refined key
RefinedBruteForceEntry(refinementResult, refinedDecryption) ==
    [key |-> refinementResult.finalKey,
     keyLength |-> Len(refinementResult.finalKey),
     wordStats |-> refinementResult.wordStats,
     improved |-> TRUE,
     iterations |-> refinementResult.iterations,
     compositeScore |-> WordScore(refinementResult.wordStats.percentage,
                                  refinementResult.wordStats.weightedScore),
     preview |-> Slice(refinedDecryption, PreviewLength)]

\* topResults.unshift(entry)
Unshift(list, entry) == <<entry>> \o list

\* bruteForceCrack after refineKey has returned
BruteForceRefined ==
    /\ wPc = "bruteForceRefine"
    /\ rPc = "returned"
    /\ LET refinementResult == RefinementResult
       IN  IF /\ refinementResult.improved
              /\ FracLt(topResults[1].wordStats.percentage,
                        refinementResult.wordStats.percentage)
           THEN LET refinedDecryption ==
                        decryptWithKey(task.ciphertext, refinementResult.finalKey)
                    list == Unshift(topResults,
                                RefinedBruteForceEntry(refinementResult,
                                                       refinedDecryption))
                IN  /\ topResults' = list
                    /\ Post([topResults |-> list,
                             fullDecryption |-> refinedDecryption,
                             method |-> "brute-force-with-refinement"])
           ELSE /\ Post([topResults |-> topResults,
                         fullDecryption |-> fullDecryption,
                         method |-> "brute-force"])
                /\ UNCHANGED topResults
    /\ wPc' = "posted"
    /\ UNCHANGED <<task, likelyKeyLengths, lenIdx, bestResult, fullDecryption,
                   stepsRun, refVars, notCrack>>

\* the average index of coincidence of the sequences of one key length
KeyLengthScore(length) ==
    LET sequences == getSequences(task.ciphertext, length)
        ics       == Array([i \in 1..Len(sequences) |-> calculateIC(sequences[i])])
        RECURSIVE total(_)
        total(i)  == IF i = 0 THEN Frac(0, 1) ELSE FracAdd(total(i - 1), ics[i])
    IN  [length |-> length, avgIC |-> FracDivInt(total(Len(sequences)),
                                                 Len(sequences))]

TooShort_Raw(text) == Len(text) < MinLetters

\* cleanText.length < 20, cleanText being the letters of the ciphertext
TooShort(text) == Len(CleanText(text)) < MinLetters

\* cryptanalysisCrack up to the choice of the likely key lengths; the error
\* it throws on a short text is caught by the message handler, which posts it
CryptanalysisStart ==
    /\ wPc = "cryptanalysis"
    /\ IF TooShort(task.ciphertext)
       THEN /\ Post([error |-> TRUE,
                     message |-> "Ciphertext too short for reliable analysis"])
            /\ wPc' = "posted"
            /\ UNCHANGED <<likelyKeyLengths, lenIdx, bestResult, stepsRun>>
       ELSE LET keyLengthScores ==
                    [length \in 1..task.maxKeyLength |-> KeyLengthScore(length)]
                sorted == StableSort(keyLengthScores, "avgIC")
                top    == Slice(sorted, 3)
            IN  /\ likelyKeyLengths' = [i \in 1..Len(top) |-> top[i].length]
                /\ lenIdx' = 1
                /\ bestResult' = <<>>
                /\ stepsRun' = stepsRun \cup {"keyLength"}
                /\ wPc' = "tryLengths"
                /\ UNCHANGED posted
    /\ UNCHANGED <<task, topResults, fullDecryption, refVars, notCrack>>


\* one pass of the loop over the likely key lengths
CryptanalysisTryLength ==
    /\ wPc = "tryLengths"
    /\ lenIdx <= Len(likelyKeyLengths)
    /\ LET keyLength     == likelyKeyLengths[lenIdx]
           sequences     == getSequences(task.ciphertext, keyLength)
           shiftOptions  == Array([p \in 1..Len(sequences) |->
                                findBestShifts(sequences[p], ShiftOptionCount)])
           potentialKeys == generateKeys(shiftOptions)
           keyResults    == [i \in 1..Len(potentialKeys) |->
                                rateKeyQuality(potentialKeys[i], task.ciphertext,
                                               task.dictionary)]
           sorted        == StableSort(keyResults, "compositeScore")
       IN  bestResult' =
               IF /\ Len(sorted) > 0
                  /\ \/ bestResult = <<>>
                     \/ FracLt(bestResult[1].compositeScore, sorted[1].compositeScore)
               THEN <<sorted[1]>>
               ELSE bestResult
    /\ lenIdx' = lenIdx + 1
    /\ stepsRun' = stepsRun \cup {"shiftScoring"}
    /\ UNCHANGED <<task, wPc, likelyKeyLengths, topResults, fullDecryption,
                   posted, refVars, notCrack>>

\* after the loop: the empty result, or the call of refineKey
CryptanalysisRefine ==
    /\ wPc = "tryLengths"
    /\ lenIdx > Len(likelyKeyLengths)
    /\ IF bestResult = <<>>
       THEN /\ Post([topResults |-> <<>>,
                     message |-> "Could not find a viable key",
                     method |-> "cryptanalysis"])
            /\ wPc' = "posted"
            /\ UNCHANGED <<refVars, stepsRun>>
       ELSE /\ CallRefine(bestResult[1].key)
            /\ wPc' = "cryptanalysisRefine"
            /\ UNCHANGED posted
    /\ UNCHANGED <<task, crackLocals, notCrack>>

\* the top results cryptanalysisCrack builds from the refinement
CryptanalysisTopResults(refinementResult, best) ==
    LET refined ==
            [key |-> refinementResult.finalKey,
             keyLength |-> Len(refinementResult.finalKey),
             wordStats |-> refinementResult.wordStats,
             chiSquared |-> best.chiSquared,
             compositeScore |->
                 CompositeScore(refinementResult.wordStats.percentage,
                                refinementResult.wordStats.weightedScore,
                                best.chiSquared),
             improved |-> refinementResult.improved,
             iterations |-> refinementResult.iterations,
             preview |-> Slice(refinementResult.decrypted, PreviewLength)]
        original ==
            [key |-> best.key, keyLength |-> Len(best.key),
             wordStats |-> best.wordStats, chiSquared |-> best.chiSquared,
             compositeScore |-> best.compositeScore,
             preview |-> Slice(best.decrypted, PreviewLength)]
    IN  IF refinementResult.finalKey # best.key
        THEN <<refined, original>>
        ELSE <<refined>>

\* cryptanalysisCrack after refineKey has returned
CryptanalysisRefined ==
    /\ wPc = "cryptanalysisRefine"
    /\ rPc = "returned"
    /\ LET list == CryptanalysisTopResults(RefinementResult, bestResult[1])
       IN  /\ topResults' = list
           /\ fullDecryption' = RefinementResult.decrypted
           /\ Post([topResults |-> list,
                    fullDecryption |-> RefinementResult.decrypted,
                    method |-> "cryptanalysis"])
    /\ wPc' = "posted"
    /\ UNCHANGED <<task, likelyKeyLengths, lenIdx, bestResult, stepsRun,
                   refVars, notCrack>>

-----------------------------------------------------------------------------
(* The tasks given to the worker *)

\* "oq ph pp ph oq pp ph oq ph pp": "no of on of no on of no of on" under BC,
\* 20 letters
Cipher20 ==
    <<111, 113, 32, 112, 104, 32, 112, 112, 32, 112, 104, 32, 111, 113, 32,
      112, 112, 32, 112, 104, 32, 111, 113, 32, 112, 104, 32, 112, 112>>

\* "jv ju pp ujf cu vp ko pp ct": "it is on the at to in no as" under BC,
\* 19 letters in 27 characters
Cipher19 ==
    <<106, 118, 32, 106, 117, 32, 112, 112, 32, 117, 106, 102, 32, 99, 117, 32,
      118, 112, 32, 107, 111, 32, 112, 112, 32, 99, 116>>

\* BD ; AA BD CB JD ZZ ; AA BD CB JD ZZ BC
KnownOne  == <<<<66, 68>>>>
KnownFive == <<<<65, 65>>, <<66, 68>>, <<67, 66>>, <<74, 68>>, <<90, 90>>>>
KnownSix  == Append(KnownFive, <<66, 67>>)

Tasks ==
    {[ciphertext |-> c, maxKeyLength |-> mkl, targetRecognition |-> t,
      maxIterations |-> m, useBruteForce |-> FALSE, knownKeys |-> <<>>,
      dictionary |-> Dictionary] :
        c \in {CipherTwo, Cipher19, Cipher20}, mkl \in 0..MaxKeyLength,
        t \in {50, 100}, m \in {0, 1, MaxTaskIters}}
    \cup
    {[ciphertext |-> c, maxKeyLength |-> mkl, targetRecognition |-> t,
      maxIterations |-> m, useBruteForce |-> TRUE, knownKeys |-> keys,
      dictionary |-> Dictionary] :
        c \in {CipherTwo, Cipher19, Cipher20}, mkl \in {0, MaxKeyLength},
        t \in {50, 100}, m \in {0, 1, MaxTaskIters},
        keys \in {<<>>, KnownOne, KnownFive, KnownSix}}

Init ==
    /\ task \in Tasks
    /\ wPc = "received"
    /\ likelyKeyLengths = <<>> /\ lenIdx = 0 /\ bestResult = <<>>
    /\ topResults = <<>> /\ fullDecryption = <<>>
    /\ posted = <<>> /\ stepsRun = {}
    /\ RefIdle /\ DecIdle /\ GenIdle /\ PoolIdle /\ CtlIdle /\ StatIdle

Next ==
    \/ ProcessTask
    \/ BruteForceCrack \/ BruteForceRefined
    \/ CryptanalysisStart \/ CryptanalysisTryLength \/ CryptanalysisRefine
    \/ CryptanalysisRefined
    \/ RefineStart \/ RefineWhile \/ RefineSingle \/ RefineSwap \/ RefineRandom
    \/ RefineTarget

Spec == Init /\ [][Next]_vars

-----------------------------------------------------------------------------
(* Properties of the worker's strategies *)

\* the task goes to cryptanalysisCrack
RunsCryptanalysis == ~(task.useBruteForce /\ Len(task.knownKeys) > 0)

ShortTextError ==
    [error |-> TRUE, message |-> "Ciphertext too short for reliable analysis"]

\* C4: a task that cryptanalysisCrack receives with fewer than 20 letters in
\* its ciphertext runs no key-length estimation, no shift scoring and no
\* refinement, and the only message the worker posts for it is the structured
\* error {error: true, message}, which carries no topResults
C4_ShortTextFails ==
    (RunsCryptanalysis /\ Len(SelectSeq(task.ciphertext, IsLetter)) < 20)
        => /\ stepsRun = {}
           /\ rPc = "idle"
           /\ wPc \in {"received", "cryptanalysis", "posted"}
           /\ posted = IF wPc = "posted" THEN <<ShortTextError>> ELSE <<>>

\* a ciphertext of 27 characters, 19 of them letters, has been refused
C4_Witness ==
    /\ wPc = "posted"
    /\ ~task.useBruteForce
    /\ Len(task.ciphertext) >= 20
    /\ Len(SelectSeq(task.ciphertext, IsLetter)) = 19
    /\ posted = <<ShortTextError>>

\* C5: a brute-force task with an empty known-key list ends with a result of
\* empty topResults and a message, without an error and without any step of
\* the cryptanalysis
C5_EmptyKeysNoViableKey ==
    (task.useBruteForce /\ task.knownKeys = <<>> /\ wPc = "posted")
        => /\ Len(posted) = 1
           /\ "error" \notin DOMAIN posted[1]
           /\ "topResults" \in DOMAIN posted[1]
           /\ "message" \in DOMAIN posted[1]
           /\ posted[1].topResults = <<>>
           /\ stepsRun = {}

\* the composite score of the decryption of the task's ciphertext with the key
OwnScore(key) == rateKeyQuality(key, task.ciphertext, task.dictionary).compositeScore

\* the results the worker has posted
PostedResults == {i \in 1..Len(posted) : "topResults" \in DOMAIN posted[i]}

\* C8: every entry of a posted topResults carries the composite score of the
\* decryption with its own key
C8_UniformScore ==
    \A i \in PostedResults :
        \A k \in 1..Len(posted[i].topResults) :
            FracEq(posted[i].topResults[k].compositeScore,
                   OwnScore(posted[i].topResults[k].key))

\* C9: a posted topResults has at most 5 entries
C9_AtMostFive ==
    \A i \in PostedResults : Len(posted[i].topResults) <= 5

\* the task goes to bruteForceCrack and its result has been posted
BruteForcePosted ==
    /\ wPc = "posted"
    /\ task.useBruteForce /\ Len(task.knownKeys) > 0

KnownKeySet == {task.knownKeys[i] : i \in 1..Len(task.knownKeys)}

\* the posted list without the refined entry put in front of it
KnownKeyResults ==
    IF posted[1].method = "brute-force-with-refinement"
    THEN Tail(posted[1].topResults)
    ELSE posted[1].topResults

\* the list holds the min(5, n) best of the n known keys, each with the
\* rating of its own decryption, in descending order of compositeScore
IsTopOfKnownKeys(list) ==
    /\ Len(list) = Min(5, Len(task.knownKeys))
    /\ \A k \in 1..Len(list) :
          /\ list[k].key \in KnownKeySet
          /\ list[k] = BruteForceEntry(list[k].key)
    /\ \A i, j \in 1..Len(list) :
          i < j => /\ list[i].key # list[j].key
                   /\ FracLe(list[j].compositeScore, list[i].compositeScore)
    /\ \A key \in KnownKeySet \ {list[k].key : k \in 1..Len(list)} :
          FracLe(OwnScore(key), list[Len(list)].compositeScore)

\* C14: brute force over a non-empty list of (distinct) known keys posts the
\* up to 5 best-rated keys in descending order; refineKey has run exactly
\* when the best key's percentage is below targetRecognition; the method is
\* "brute-force-with-refinement", with the refined key in front of that
\* list, exactly when refineKey ran and returned a strictly greater
\* percentage than the best known key's, and "brute-force" with the list
\* alone otherwise
C14_BruteForceResult ==
    BruteForcePosted
        => LET list == KnownKeyResults
               best == list[1].wordStats.percentage
               ran  == "refine" \in stepsRun
               refinedBetter ==
                   ran /\ FracLt(best, RefinementResult.wordStats.percentage)
           IN  /\ Len(posted) = 1
               /\ IsTopOfKnownKeys(list)
               /\ ran <=> FracLt(best, Frac(task.targetRecognition, 1))
               /\ posted[1].method \in {"brute-force", "brute-force-with-refinement"}
               /\ posted[1].method = "brute-force-with-refinement" <=> refinedBetter
               /\ refinedBetter
                    => /\ posted[1].topResults[1].key = RefinementResult.finalKey
                       /\ posted[1].topResults[1].wordStats = RefinementResult.wordStats

\* six known keys rated and the five best posted, the key that meets the
\* target first and without a call of refineKey
C14_Witness ==
    /\ BruteForcePosted
    /\ Len(task.knownKeys) = 6
    /\ posted[1].method = "brute-force"
    /\ Len(posted[1].topResults) = 5
    /\ posted[1].topResults[1].key = task.knownKeys[6]
    /\ "refine" \notin stepsRun

\* C15: in every posted result with a non-empty topResults, fullDecryption
\* is the decryption of the ciphertext with the key of the first entry, and
\* the wordStats of the first entry are the word statistics of that text
C15_FullDecryptionOfTop ==
    \A i \in PostedResults :
        posted[i].topResults # <<>>
            => LET top  == posted[i].topResults[1]
                   text == decryptWithKey(task.ciphertext, top.key)
               IN  /\ posted[i].fullDecryption = text
                   /\ top.wordStats = countRecognizedWords(text, task.dictionary)

\* a cryptanalysis result whose first entry is a key refineKey improved
C15_Witness ==
    /\ wPc = "posted"
    /\ PostedResults = {1}
    /\ posted[1].method = "cryptanalysis"
    /\ Len(posted[1].topResults) = 2
    /\ posted[1].topResults[1].improved

-----------------------------------------------------------------------------
(* The worker pool *)

\* workers.find(worker => !busyWorkers.has(worker)), 0 when there is none
FirstFree(busy) ==
    IF Workers \ busy = {} THEN 0
    ELSE CHOOSE w \in Workers \ busy : \A v \in Workers \ busy : w <= v

\* the pool's own state, and its assignment
PoolNow ==
    [busy |-> busyWorkers, resolve |-> resolveOf, inbox |-> inbox,
     queue |-> taskQueue, sent |-> sent]

SetPool(pool) ==
    /\ busyWorkers' = pool.busy
    /\ resolveOf' = pool.resolve
    /\ inbox' = pool.inbox
    /\ taskQueue' = pool.queue
    /\ sent' = pool.sent

\* worker.postMessage(data): a thread that has exited receives nothing
PostToWorker(boxes, w, t) ==
    IF alive[w] THEN [boxes EXCEPT ![w] = Append(@, t)] ELSE boxes

\* executeOnWorker
executeOnWorker(pool, w, t) ==
    [pool EXCEPT !.busy = @ \cup {w},
                 !.resolve = [@ EXCEPT ![w] = t],
                 !.inbox = PostToWorker(@, w, t),
                 !.sent = Append(@, t)]

\* a queue served from its newest end
processQueue_Pop(pool) ==
    IF pool.queue = <<>> THEN pool
    ELSE LET w == FirstFree(pool.busy)
             n == Len(pool.queue)
         IN  IF w = 0 THEN pool
             ELSE executeOnWorker([pool EXCEPT !.queue = SubSeq(@, 1, n - 1)], w,
                                  pool.queue[n])

\* processQueue
processQueue(pool) ==
    IF pool.queue = <<>> THEN pool
    ELSE LET w == FirstFree(pool.busy)
         IN  IF w = 0 THEN pool
             ELSE executeOnWorker([pool EXCEPT !.queue = Tail(@)], w,
                                  Head(pool.queue))

\* the tasks waiting in the queue
Queued == {taskQueue[i] : i \in 1..Len(taskQueue)}

\* runTask
runTask ==
    /\ submitted < MaxTasks
    /\ LET t == submitted + 1
           w == FirstFree(busyWorkers)
       IN  /\ submitted' = t
           /\ promise' = [promise EXCEPT ![t] = [NoPromise EXCEPT !.state = "pending"]]
           /\ SetPool(IF w # 0 THEN executeOnWorker(PoolNow, w, t)
                      ELSE [PoolNow EXCEPT !.queue = Append(@, t)])
           /\ everQueued' = IF w # 0 THEN everQueued ELSE everQueued \cup {t}
           /\ afterFailure' = IF failed THEN afterFailure \cup {t} ELSE afterFailure
    /\ UNCHANGED <<outbox, alive, errorEvent, failed, notPoolCtl>>

\* runTask called by a caller that keeps no state of its own
Submit == runTask /\ UNCHANGED ctlVars

\* what the worker posts: a result with candidates, the result with an empty
\* topResults, or the structured error
ResultKinds == {"result", "empty", "error"}

\* the worker thread's message handler: it posts the strategy's result, or
\* the structured error when the strategy throws
WorkerFinish(w) ==
    /\ alive[w]
    /\ inbox[w] # <<>>
    /\ \E kind \in ResultKinds :
          /\ outbox' = [outbox EXCEPT
                           ![w] = Append(@, [of |-> Head(inbox[w]), kind |-> kind])]
          /\ failed' = (failed \/ kind = "error")
          /\ afterFailure' = IF kind = "error" THEN afterFailure \cup Queued
                             ELSE afterFailure
    /\ inbox' = [inbox EXCEPT ![w] = Tail(@)]
    /\ UNCHANGED <<busyWorkers, taskQueue, resolveOf, alive, errorEvent, promise,
                   submitted, sent, everQueued, notPool>>

\* an uncaught exception in the worker thread: the thread exits and its
\* 'error' event is on its way to the pool
WorkerCrash(w) ==
    /\ alive[w]
    /\ inbox[w] # <<>>
    /\ alive' = [alive EXCEPT ![w] = FALSE]
    /\ inbox' = [inbox EXCEPT ![w] = <<>>]
    /\ errorEvent' = [errorEvent EXCEPT ![w] = TRUE]
    /\ failed' = TRUE
    /\ afterFailure' = afterFailure \cup Queued
    /\ UNCHANGED <<busyWorkers, taskQueue, resolveOf, outbox, promise, submitted,
                   sent, everQueued, notPool>>

\* the handler createMessageHandler makes for the worker
MessageHandler(w) ==
    /\ outbox[w] # <<>>
    /\ LET result == Head(outbox[w])
           t      == resolveOf[w]
       IN  /\ promise' = IF t # 0
                         THEN [promise EXCEPT ![t] = [state |-> "resolved",
                                                      of |-> result.of,
                                                      kind |-> result.kind]]
                         ELSE promise
           /\ SetPool(processQueue([PoolNow EXCEPT !.resolve = [@ EXCEPT ![w] = 0],
                                                   !.busy = @ \ {w}]))
    /\ outbox' = [outbox EXCEPT ![w] = Tail(@)]
    /\ UNCHANGED <<alive, errorEvent, submitted, failed, afterFailure,
                   everQueued, notPool>>

\* the handler of the worker's 'error' event
ErrorHandler(w) ==
    /\ errorEvent[w]
    /\ errorEvent' = [errorEvent EXCEPT ![w] = FALSE]
    /\ SetPool(processQueue([PoolNow EXCEPT !.busy = @ \ {w}]))
    /\ UNCHANGED <<outbox, alive, promise, submitted, failed, afterFailure,
                   everQueued, notPool>>

PoolInit == PoolIdle /\ CtlIdle /\ DecIdle /\ GenIdle /\ RefIdle /\ CrackIdle /\ StatIdle

PoolNext ==
    \/ Submit
    \/ \E w \in Workers : WorkerFinish(w)
    \/ \E w \in Workers : WorkerCrash(w)
    \/ \E w \in Workers : MessageHandler(w)
    \/ \E w \in Workers : ErrorHandler(w)

SpecPool == PoolInit /\ [][PoolNext]_vars

-----------------------------------------------------------------------------
(* Properties of the worker pool *)

\* no message and no event is in flight, and no worker thread has a task
Quiescent ==
    \A w \in Workers : inbox[w] = <<>> /\ outbox[w] = <<>> /\ ~errorEvent[w]

\* C10: once the pool has come to rest, every task that was queued at, or
\* submitted after, a failure of a worker has been dispatched and completed
C10_ServedAfterFailure ==
    Quiescent => \A t \in afterFailure : promise[t].state = "resolved"

\* the same for the failures the worker reports in a message only
C10_ServedAfterErrorMessage ==
    (Quiescent /\ \A w \in Workers : alive[w])
        => \A t \in afterFailure : promise[t].state = "resolved"

\* the pool under the scheduling Node gives it: a worker thread that was sent
\* a task finishes it or fails, and the event loop of the main thread runs
\* the handler of every message and every 'error' event that has arrived;
\* nothing obliges a caller to submit another task
PoolFairness ==
    \A w \in Workers :
        /\ WF_vars(WorkerFinish(w) \/ WorkerCrash(w))
        /\ WF_vars(MessageHandler(w))
        /\ WF_vars(ErrorHandler(w))

SpecPoolFair == PoolInit /\ [][PoolNext]_vars /\ PoolFairness

\* C11: the promise of every submitted task is eventually settled
C11_EveryTaskSettles ==
    \A t \in TaskIds :
        (promise[t].state = "pending") ~> (promise[t].state # "pending")

\* the tasks sent so far
Sent == {sent[i] : i \in 1..Len(sent)}

\* C12: tasks are numbered in the order of their submission, and they are
\* sent to workers in that order; the tasks still in the queue wait in that
\* order too, behind every task already sent
C12_Fifo ==
    /\ \A i, j \in 1..Len(sent) : i < j => sent[i] < sent[j]
    /\ \A i, j \in 1..Len(taskQueue) : i < j => taskQueue[i] < taskQueue[j]
    /\ \A t \in Sent : \A q \in Queued : t < q

\* two tasks that waited in the queue together have both been sent, after a
\* worker has failed
C12_Witness ==
    /\ failed
    /\ \E a, b \in everQueued \cap Sent : a # b
    /\ everQueued = {3, 4}

-----------------------------------------------------------------------------
(* countRecognizedWords and calculateIC as calls *)

\* a t i A, the space and the digit 1
StatChars == {97, 116, 105, 65, 32, 49}

StatTexts == UNION {[1..n -> StatChars] : n \in 0..MaxTextLen}

StatInit ==
    /\ sText \in StatTexts
    /\ sStats = NoWordStats /\ sIC = Frac(0, 1)
    /\ sPc = "start"
    /\ DecIdle /\ GenIdle /\ RefIdle /\ CrackIdle /\ PoolIdle /\ CtlIdle

\* countRecognizedWords(text, dictionary)
CountCall ==
    /\ sPc = "start"
    /\ sStats' = countRecognizedWords(sText, Dictionary)
    /\ sPc' = "counted"
    /\ UNCHANGED <<sText, sIC, notStat>>

\* calculateIC(text)
ICCall ==
    /\ sPc = "start"
    /\ sIC' = calculateIC(sText)
    /\ sPc' = "ic"
    /\ UNCHANGED <<sText, sStats, notStat>>

StatNext == CountCall \/ ICCall

SpecStat == StatInit /\ [][StatNext]_vars

\* the maximal runs of letters of the text, and those of 2 letters or more
Tokens(text) == SplitWords(ToLowerStr(text), 1, <<>>, <<>>)
LongTokens(text) == SelectSeq(Tokens(text), LAMBDA w : Len(w) >= 2)

\* C16: countRecognizedWords counts in total only the tokens of 2 letters or
\* more, percentage is count / total * 100 and weightedScore is the weight of
\* the recognized tokens / total over those tokens; without tokens all four
\* are 0; and 0 <= count <= total, 0 <= percentage <= 100
C16_OnlyLongTokens ==
    sPc = "counted"
        => LET long   == LongTokens(sText)
               known  == {i \in 1..Len(long) : Lookup(Dictionary, long[i]) > 0}
               weight == SumOver([i \in 1..Len(long) |-> Lookup(Dictionary, long[i])],
                                 1, Len(long))
           IN  /\ sStats.count = Cardinality(known)
               /\ sStats.total = Len(long)
               /\ FracEq(sStats.percentage,
                         IF Len(long) > 0
                         THEN Frac(100 * Cardinality(known), Len(long))
                         ELSE Frac(0, 1))
               /\ FracEq(sStats.weightedScore,
                         IF Len(long) > 0 THEN Frac(weight, 10 * Len(long))
                         ELSE Frac(0, 1))
               /\ 0 <= sStats.count /\ sStats.count <= sStats.total
               /\ FracLe(Frac(0, 1), sStats.percentage)
               /\ FracLe(sStats.percentage, Frac(100, 1))

\* what of it the code does: the same over all the tokens, of which only
\* those of 2 letters or more can be recognized
CountsEveryToken ==
    sPc = "counted"
        => LET long  == LongTokens(sText)
               known == {i \in 1..Len(long) : Lookup(Dictionary, long[i]) > 0}
           IN  /\ sStats.count = Cardinality(known)
               /\ sStats.total = Len(Tokens(sText))
               /\ sStats.count <= sStats.total
               /\ FracLe(Frac(0, 1), sStats.percentage)
               /\ FracLe(sStats.percentage, Frac(100, 1))
               /\ sStats.total = 0 => sStats = NoWordStats

\* the letters of the text, in upper case
Letters(text) == SelectSeq(ToUpperStr(text), IsUpper)

\* C17: calculateIC is exactly 0 for a text of at most one letter, exactly 1
\* for a text whose letters are one letter repeated twice or more, and
\* between 0 and 1 for every text
C17_ICRange ==
    sPc = "ic"
        => LET letters == Letters(sText)
           IN  /\ Len(letters) <= 1 => sIC = Frac(0, 1)
               /\ (Len(letters) >= 2 /\ \A i \in 1..Len(letters) : letters[i] = letters[1])
                    => /\ sIC.num = sIC.den
                       /\ sIC.num = Len(letters) * (Len(letters) - 1)
               /\ sIC.den > 0
               /\ 0 <= sIC.num /\ sIC.num <= sIC.den

\* the index of coincidence of one letter written three times or more
C17_Witness ==
    /\ sPc = "ic"
    /\ Len(sText) >= 3
    /\ \A i \in 1..Len(sText) : sText[i] = 116
    /\ sIC.num = sIC.den

-----------------------------------------------------------------------------
(* The controller's crackCipher over the worker pool *)

\* !result.topResults || result.topResults.length === 0: the structured error
\* has no topResults, the empty result has none in it
NoTopResults(kind) == kind \in {"empty", "error"}

\* crackCipher up to its await: a request with a ciphertext is counted and
\* its task is given to the pool
CrackRequest ==
    /\ activeTasks' = activeTasks + 1
    /\ runTask
    /\ UNCHANGED <<completedTasks, response, refused>>

\* crackCipher for a body without a ciphertext: the answer 400, before the
\* counter is touched
CrackNoCiphertext ==
    /\ refused < MaxRefused
    /\ refused' = refused + 1
    /\ UNCHANGED <<activeTasks, completedTasks, response, poolVars, notPoolCtl>>

\* crackCipher for a request whose req.body is undefined (no body parsed):
\* the destructuring at the head of the try throws, and the catch block
\* decrements the counter and answers 500
CrackBodyThrows ==
    /\ refused < MaxRefused
    /\ refused' = refused + 1
    /\ activeTasks' = activeTasks - 1
    /\ UNCHANGED <<completedTasks, response, poolVars, notPoolCtl>>

\* crackCipher after its await, when the promise of the task is resolved
CrackRespond(t) ==
    /\ promise[t].state = "resolved"
    /\ response[t] = NoResponse
    /\ activeTasks' = activeTasks - 1
    /\ completedTasks' = completedTasks + 1
    /\ response' = [response EXCEPT ![t] =
                       IF NoTopResults(promise[t].kind)
                       THEN [status |-> 200, body |-> "No viable solutions found"]
                       ELSE [status |-> 200, body |-> "Cipher cracked successfully"]]
    /\ UNCHANGED <<refused, poolVars, notPoolCtl>>

CtlInit == PoolInit

CtlNext ==
    \/ CrackRequest
    \/ CrackNoCiphertext
    \/ CrackBodyThrows
    \/ \E w \in Workers : WorkerFinish(w)
    \/ \E w \in Workers : WorkerCrash(w)
    \/ \E w \in Workers : MessageHandler(w)
    \/ \E w \in Workers : ErrorHandler(w)
    \/ \E t \in TaskIds : CrackRespond(t)

SpecController == CtlInit /\ [][CtlNext]_vars

\* the requests answered, and those among them whose task ended in the
\* structured error
Answered == {t \in TaskIds : response[t] # NoResponse}
Errored == {t \in Answered : promise[t].kind = "error"}

\* C20: a request whose task ended in the structured error is answered as an
\* error, not as "No viable solutions found", and is not counted in
\* completedTasks
C20_ErrorAnsweredAsError ==
    /\ \A t \in Errored :
          /\ response[t].status # 200
          /\ response[t].body # "No viable solutions found"
    /\ completedTasks = Cardinality(Answered \ Errored)

\* the requests given to the pool and not yet answered
Unanswered == {t \in 1..submitted : response[t] = NoResponse}

\* C21: activeTasks is never negative and is the number of crack requests
\* given to the pool and not yet answered
C21_ActiveTasksCount ==
    /\ activeTasks >= 0
    /\ activeTasks = Cardinality(Unanswered)

\* what the code keeps: the counter is that number less the requests whose
\* body made the try block throw, of which there are at most refused
ActiveTasksOffByThrows ==
    /\ activeTasks <= Cardinality(Unanswered)
    /\ Cardinality(Unanswered) - activeTasks <= refused

\* no worker is sent a task while it is busy with another: a worker has at
\* most one task or result in flight, and only while it is marked busy
OneTaskInFlight ==
    \A w \in Workers :
        /\ Len(inbox[w]) + Len(outbox[w]) <= 1
        /\ (inbox[w] # <<>> \/ outbox[w] # <<>>) => w \in busyWorkers

\* the resolve callback of a task sent to a worker stays stored with a worker
\* until it is called
ResolveKeptUntilCalled ==
    \A t \in Sent :
        promise[t].state = "pending" => \E w \in Workers : resolveOf[w] = t

BusyWithinPoolSize == Cardinality(busyWorkers) <= PoolSize

QueueOnlyWhenAllBusy == taskQueue # <<>> => busyWorkers = Workers

\* a delivered result is the result of the caller's own task
ResultToItsCaller ==
    \A t \in TaskIds : promise[t].state = "resolved" => promise[t].of = t

\* C22: in every state of the pool a worker holds at most one outstanding
\* task and its stored resolve callback is not overwritten before it is
\* called, the busy workers are at most the pool size, the queue is non-empty
\* only while all workers are busy, and each result goes to the caller of the
\* task that was sent to the worker
C22_PoolInvariants ==
    /\ OneTaskInFlight
    /\ ResolveKeptUntilCalled
    /\ BusyWithinPoolSize
    /\ QueueOnlyWhenAllBusy
    /\ ResultToItsCaller

\* what the code keeps: every part of C22 but the stored callback
PoolInvariantsKept ==
    /\ OneTaskInFlight
    /\ BusyWithinPoolSize
    /\ QueueOnlyWhenAllBusy
    /\ ResultToItsCaller

=============================================================================
